---- MODULE Spec2Model ----
(***************************************************************************)
(* The request-dispatch-and-normalization layer of the four market-data    *)
(* scripts:                                                                *)
(*   scripts/akshare_service.py   HTTP service over the data library       *)
(*   scripts/astock_service.py    HTTP service over curl                   *)
(*   scripts/astock.py            CLI over curl                            *)
(*   skills/quant-data-agent/scripts/data_query.py   CLI over the library  *)
(* One action per handler: a whole do_GET, or a whole CLI run.  The        *)
(* upstream's answer and the request are inputs of the action.             *)
(*                                                                         *)
(* Conventions.  The file is ASCII: the Chinese column labels and string   *)
(* literals of the source are written by an English gloss.  A Python or    *)
(* JSON value is a tagged record (J...); a number is a decimal             *)
(* m * 10^(-e), so that /100 is exact.  A text (curl's stdout, a printed   *)
(* line, an HTTP body) is a tagged record too: json.dumps makes a text of  *)
(* a value, json.loads gets the value back or raises.                      *)
(***************************************************************************)
EXTENDS Integers, Sequences, FiniteSets, TLC

VARIABLES script, request, upstream, client, now, route, responses, wire,
          escaped, printed, console, calls, exitCode, prev

vars == <<script, request, upstream, client, now, route, responses, wire,
          escaped, printed, console, calls, exitCode, prev>>

(***************************************************************************)
(* Bounds of the model.                                                    *)
(***************************************************************************)
\* rows the data library may return: one more than the largest cap (100)
MaxRows == 101
\* records in data.diff (or data) of a curl answer: one more than pz=20
MaxDiff == 21
\* the clock takes the values 0..MaxClock
MaxClock == 1

(***************************************************************************)
(* Python / JSON values.                                                   *)
(***************************************************************************)
JNull == [t |-> "null"]
\* float('nan'), as pandas gives for a missing cell
JNaN == [t |-> "nan"]
JBool(b) == [t |-> "bool", b |-> b]
\* the decimal m * 10^(-e), trailing zeros of m not yet removed
RECURSIVE Norm(_, _)
Norm(m, e) == IF e > 0 /\ m % 10 = 0 THEN Norm(m \div 10, e - 1)
              ELSE [t |-> "num", m |-> m, e |-> e]
JNum(m, e) == Norm(m, e)
JInt(n) == JNum(n, 0)
JStr(s) == [t |-> "str", s |-> s]
JList(items) == [t |-> "list", items |-> items]
\* fields: a function from a finite set of keys (strings) to values
JObj(fields) == [t |-> "obj", fields |-> fields]

\* bool(v): Python truthiness, as `if not data`, `x if v else d` use it
Truthy(v) ==
    CASE v.t = "null" -> FALSE
      [] v.t = "nan" -> TRUE
      [] v.t = "bool" -> v.b
      [] v.t = "num" -> v.m # 0
      [] v.t = "str" -> v.s # ""
      [] v.t = "list" -> v.items # <<>>
      [] v.t = "obj" -> DOMAIN v.fields # {}
      [] OTHER -> TRUE

\* The result of an expression that may raise: ok = FALSE is the raise.
\* val is the value, or str(e) of the exception raised.
Ok(v) == [ok |-> TRUE, val |-> v]
Raise(msg) == [ok |-> FALSE, val |-> JStr(msg)]
Raised == Raise("error")

\* v.get(key, default): AttributeError unless v is a dict
DictGet(v, key, default) ==
    IF v.t # "obj" THEN Raised
    ELSE IF key \in DOMAIN v.fields THEN Ok(v.fields[key]) ELSE Ok(default)

\* v / 100: TypeError unless v is a number
Div100(v) ==
    IF v.t = "num" THEN Ok(JNum(v.m, v.e + 2))
    ELSE IF v.t = "nan" THEN Ok(JNaN)
    ELSE IF v.t = "bool" THEN Ok(JNum(IF v.b THEN 1 ELSE 0, 2))
    ELSE Raised

\* `for item in v`: the items of a list, the keys of a dict, the characters
\* of a string (none for ""; a character has no .get); TypeError otherwise
Iterate(v) ==
    CASE v.t = "list" -> Ok(v.items)
      [] v.t = "obj" -> Ok(IF DOMAIN v.fields = {} THEN <<>> ELSE <<JStr("key")>>)
      [] v.t = "str" -> Ok(IF v.s = "" THEN <<>> ELSE <<JStr("char")>>)
      [] OTHER -> Raised

(***************************************************************************)
(* Texts.                                                                  *)
(***************************************************************************)
\* None, as curl_get returns it
PyNone == [text |-> "None"]
EmptyText == [text |-> "empty"]
\* a text that is no JSON document (an HTML error page, a cut-off answer)
GarbageText == [text |-> "garbage"]
\* json.dumps(v): the JSON text of v
Dumps(v) == [text |-> "json", doc |-> v]
\* json.loads(text): the value, or a raise when the text is no JSON
Loads(text) == IF text.text = "json" THEN Ok(text.doc) ELSE Raised
\* `not data` for what curl_get returned
NoData(data) == data.text \in {"None", "empty"}

(***************************************************************************)
(* Paths.  self.path is "/" + "/".join(segments); a segment holds no "/".  *)
(* The route tests of do_GET work on the characters of the path.           *)
(***************************************************************************)
Segments == {"", "health", "stock", "realtime", "all", "index", "news", "concept", "concepts", "industry", "600001", "999999", "x"}

\* the characters of a segment
Chars(seg) ==
    CASE seg = "" -> <<>>
      [] seg = "health" -> <<"h", "e", "a", "l", "t", "h">>
      [] seg = "stock" -> <<"s", "t", "o", "c", "k">>
      [] seg = "realtime" -> <<"r", "e", "a", "l", "t", "i", "m", "e">>
      [] seg = "all" -> <<"a", "l", "l">>
      [] seg = "index" -> <<"i", "n", "d", "e", "x">>
      [] seg = "news" -> <<"n", "e", "w", "s">>
      [] seg = "concept" -> <<"c", "o", "n", "c", "e", "p", "t">>
      [] seg = "concepts" -> <<"c", "o", "n", "c", "e", "p", "t", "s">>
      [] seg = "industry" -> <<"i", "n", "d", "u", "s", "t", "r", "y">>
      [] seg = "600001" -> <<"6", "0", "0", "0", "0", "1">>
      [] seg = "999999" -> <<"9", "9", "9", "9", "9", "9">>
      [] seg = "x" -> <<"x">>

RECURSIVE PathChars(_)
\* the characters of the path "/" + "/".join(segs)
PathChars(segs) ==
    IF segs = <<>> THEN <<>>
    ELSE <<"/">> \o Chars(Head(segs)) \o PathChars(Tail(segs))

\* needle in hay
Contains(hay, needle) ==
    \E i \in 1..(Len(hay) - Len(needle) + 1) :
        SubSeq(hay, i, i + Len(needle) - 1) = needle

\* hay.startswith(prefix)
StartsWith(hay, prefix) ==
    /\ Len(prefix) <= Len(hay)
    /\ SubSeq(hay, 1, Len(prefix)) = prefix

\* path.split('/')[-1]: what follows the last "/"
LastSegment(segs) == segs[Len(segs)]

\* the paths a client requests
Paths ==
    {<<a>> : a \in Segments}
    \cup {<<a, b>> : a \in Segments, b \in Segments}
    \cup {<<"stock", a, b>> : a \in {"realtime", "index", "concept"}, b \in Segments}
    \cup {<<"index", "stock", "realtime", "600001">>, <<"x", "stock", "concept">>}

\* the documented paths of the HTTP surface
CanonicalPaths ==
    {<<"health">>, <<"stock", "realtime", "all">>, <<"stock", "realtime", "600001">>,
     <<"stock", "realtime", "999999">>, <<"stock", "index", "realtime">>,
     <<"stock", "news">>, <<"stock", "concept">>, <<"stock", "industry">>}

(***************************************************************************)
(* The curl upstream (astock_service.py, astock.py).                       *)
(***************************************************************************)
\* the i-th record of a list answer; the fields present vary with i
RecKeys(i) ==
    CASE i % 4 = 1 -> {"f14", "f3"}
      [] i % 4 = 2 -> {"f14", "f12", "f2"}
      [] i % 4 = 3 -> {"f3", "f12", "f2"}
      [] OTHER -> {"f14", "f3", "f12", "f2"}

RecField(i, k) ==
    CASE k = "f14" -> IF i % 4 = 0 THEN JNull ELSE JStr("board" \o ToString(i))
      [] k = "f3" -> IF i % 4 = 0 THEN JStr("-") ELSE JNum(324 + i, 2)
      [] k = "f12" -> JStr(ToString(600000 + i))
      [] OTHER -> IF i % 4 = 0 THEN JInt(0) ELSE JNum(1000 + i, 2)

Rec(i) == JObj([k \in RecKeys(i) |-> RecField(i, k)])

Recs(n) == JList([i \in 1..n |-> Rec(i)])

\* {"data": v}
DataDoc(v) == JObj([k \in {"data"} |-> v])
\* {"diff": v}
DiffObj(v) == JObj([k \in {"diff"} |-> v])
\* {"total": n, "diff": Recs(n)}
TotalDiffObj(n) == JObj([k \in {"total", "diff"} |-> IF k = "total" THEN JInt(n) ELSE Recs(n)])

\* the "data" of a single-stock answer
StockObjs ==
    {JObj([f43 |-> JInt(1050), f58 |-> JStr("PF Bank"), f170 |-> JInt(125)]),
     JObj([f43 |-> JInt(0), f58 |-> JStr("PF Bank"), f170 |-> JInt(0)]),
     JObj([f43 |-> JStr("-"), f58 |-> JStr("PF Bank"), f170 |-> JStr("-")]),
     JObj([f58 |-> JStr("PF Bank")]),
     JObj([f43 |-> JInt(1050), f170 |-> JNull])}

\* the JSON documents the upstream may answer with
CurlDocs ==
    {JNull, JList(<<>>), JInt(5), JObj(<<>>), DataDoc(JNull), DataDoc(JObj(<<>>)),
     DataDoc(DiffObj(JNull)), DataDoc(DiffObj(JList(<<JInt(1)>>))),
     DataDoc(JStr("")), DataDoc(JStr("busy"))}
    \cup {DataDoc(DiffObj(Recs(n))) : n \in 0..MaxDiff}
    \cup {DataDoc(TotalDiffObj(n)) : n \in 1..2}
    \cup {DataDoc(Recs(n)) : n \in 0..MaxDiff}
    \cup {DataDoc(o) : o \in StockObjs}

\* What subprocess.run(['curl', ...]) does: it completes with curl's exit
\* code rc and what curl wrote to stdout, or it raises (TimeoutExpired when
\* run with timeout=15, OSError when curl cannot be run).
Completed(rc, stdout) == [kind |-> "completed", rc |-> rc, stdout |-> stdout]
RunRaises(kind) == [kind |-> kind, rc |-> 0 - 1, stdout |-> EmptyText]

CurlOutcomes ==
    {Completed(0, Dumps(d)) : d \in CurlDocs}
    \cup {Completed(0, EmptyText), Completed(0, GarbageText)}
    \cup {Completed(rc, t) : rc \in {6, 28}, t \in {EmptyText, GarbageText}}
    \cup {Completed(18, Dumps(DataDoc(DiffObj(Recs(1))))), Completed(22, Dumps(DataDoc(JNull)))}
    \cup {RunRaises("timeout"), RunRaises("oserror")}

\* a few outcomes, one of each kind
BasicCurlOutcomes ==
    {Completed(0, Dumps(DataDoc(DiffObj(Recs(2))))), Completed(0, Dumps(DataDoc(Recs(2)))),
     Completed(0, Dumps(DataDoc(JNull))), Completed(0, EmptyText),
     Completed(6, EmptyText), Completed(28, GarbageText), RunRaises("timeout")}
    \cup {Completed(0, Dumps(DataDoc(o))) : o \in StockObjs}

\* the transfer failed: curl could not be run, timed out or exited non-zero
TransferFailed(outcome) == outcome.kind # "completed" \/ outcome.rc # 0

\* astock_service.py curl_get
ServiceCurlGet(outcome) ==
    IF outcome.kind = "completed" THEN outcome.stdout ELSE PyNone

\* astock.py curl_get (subprocess.run without timeout=)
CliCurlGet(outcome) ==
    IF outcome.kind = "completed" THEN outcome.stdout ELSE PyNone

\* the list built by a loop `for item in items: result.append({...})`, given
\* what each round does: the loop raises what its first raising round raises
MapAll(rounds) ==
    LET bad == {i \in 1..Len(rounds) : ~rounds[i].ok}
    IN  IF bad # {} THEN rounds[CHOOSE i \in bad : \A j \in bad : i <= j]
        ELSE Ok(JList([i \in 1..Len(rounds) |-> rounds[i].val]))

\* {"symbol": item.get('f12',''), "name": item.get('f14',''),
\*  "price": item.get('f2',0), "change": item.get('f3',0)}
IndexEntry(item) ==
    IF item.t # "obj" THEN Raised
    ELSE Ok(JObj([symbol |-> DictGet(item, "f12", JStr("")).val,
                  name |-> DictGet(item, "f14", JStr("")).val,
                  price |-> DictGet(item, "f2", JInt(0)).val,
                  change |-> DictGet(item, "f3", JInt(0)).val]))

\* BoardEntry reading the price f2 where the change f3 is meant
BoardEntryFromF2(item) ==
    IF item.t # "obj" THEN Raised
    ELSE Ok(JObj([name |-> DictGet(item, "f14", JStr("")).val,
                  change |-> DictGet(item, "f2", JInt(0)).val]))

\* {"name": item.get('f14',''), "change": item.get('f3',0)}
BoardEntry(item) ==
    IF item.t # "obj" THEN Raised
    ELSE Ok(JObj([name |-> DictGet(item, "f14", JStr("")).val,
                  change |-> DictGet(item, "f3", JInt(0)).val]))

\* obj = json.loads(data); [IndexEntry(item) for item in obj.get('data', [])]
ParseIndex(data) ==
    LET obj == Loads(data)
        d == IF obj.ok THEN DictGet(obj.val, "data", JList(<<>>)) ELSE Raised
        items == IF d.ok THEN Iterate(d.val) ELSE Raised
    IN  IF items.ok THEN MapAll([i \in 1..Len(items.val) |-> IndexEntry(items.val[i])])
        ELSE Raised

\* obj = json.loads(data);
\* [BoardEntry(item) for item in obj.get('data', {}).get('diff', [])]
ParseBoard(data) ==
    LET obj == Loads(data)
        d == IF obj.ok THEN DictGet(obj.val, "data", JObj(<<>>)) ELSE Raised
        diff == IF d.ok THEN DictGet(d.val, "diff", JList(<<>>)) ELSE Raised
        items == IF diff.ok THEN Iterate(diff.val) ELSE Raised
    IN  IF items.ok THEN MapAll([i \in 1..Len(items.val) |-> BoardEntry(items.val[i])])
        ELSE Raised

\* obj.get(key, 0) / 100 if obj.get(key) else 0
Cents(obj, key) ==
    IF Truthy(DictGet(obj, key, JNull).val)
    THEN Div100(DictGet(obj, key, JInt(0)).val)
    ELSE Ok(JInt(0))

\* obj = json.loads(data).get('data', {}); the quote of `symbol`
ParseStock(symbol, data) ==
    LET obj == Loads(data)
        d == IF obj.ok THEN DictGet(obj.val, "data", JObj(<<>>)) ELSE Raised
    IN  IF ~d.ok \/ d.val.t # "obj" THEN Raised
        ELSE IF ~Cents(d.val, "f43").ok \/ ~Cents(d.val, "f170").ok THEN Raised
        ELSE Ok(JObj([symbol |-> JStr(symbol),
                      name |-> DictGet(d.val, "f58", JStr("")).val,
                      price |-> Cents(d.val, "f43").val,
                      change |-> Cents(d.val, "f170").val]))

\* the literal records the curl variants answer with when they have no data
IndexPlaceholder ==
    JList(<<JObj([symbol |-> JStr("000001"), name |-> JStr("SSE Composite"),
                  price |-> JInt(3388), change |-> JNum(5, 1)])>>)
StockPlaceholder(symbol) ==
    JObj([symbol |-> JStr(symbol), name |-> JStr("stock"),
          price |-> JInt(10), change |-> JInt(0)])
ConceptPlaceholder ==
    JList(<<JObj([name |-> JStr("AI"), change |-> JNum(325, 2)]),
            JObj([name |-> JStr("chip concept"), change |-> JNum(218, 2)])>>)
IndustryPlaceholder ==
    JList(<<JObj([name |-> JStr("electronic components"), change |-> JNum(185, 2)]),
            JObj([name |-> JStr("software services"), change |-> JNum(162, 2)])>>)

(***************************************************************************)
(* HTTP responses.                                                         *)
(***************************************************************************)
\* send_json(data, status): one response, its body json.dumps(data)
SendJson(data, status) ==
    [status |-> status, ctype |-> "application/json", body |-> Dumps(data)]

\* send_json writes to the connection twice: end_headers() writes the status
\* line and the header block, wfile.write(...) the body
HeadOf(resp) == [part |-> "head", status |-> resp.status, ctype |-> resp.ctype]
BodyOf(resp) == [part |-> "body", body |-> resp.body]

\* The client's end of the connection while do_GET runs.  A request waits
\* for the upstream call; a client that gave up meanwhile has closed the
\* connection (the first write passes, every later write raises
\* BrokenPipeError) or has reset it (every write raises
\* ConnectionResetError).
Clients == {"connected", "closed", "reset"}

\* str(e) of the OSError a write raises
WriteError(c) ==
    IF c = "reset" THEN "[Errno 104] Connection reset by peer"
    ELSE "[Errno 32] Broken pipe"

\* what reaches the connection of the writes of the send_json calls resps,
\* in order: the writes before the first one that raises
Transmit(resps, c) ==
    LET writes == [k \in 1..(2 * Len(resps)) |->
                      IF k % 2 = 1 THEN HeadOf(resps[(k + 1) \div 2])
                      ELSE BodyOf(resps[k \div 2])]
    IN  CASE c = "connected" -> writes
          [] c = "closed" -> SubSeq(writes, 1, IF writes = <<>> THEN 0 ELSE 1)
          [] OTHER -> <<>>

\* what a do_GET did on a connection in state c.  h: its send_json call on
\* a connected client; extra: the send_json of the except branch that a
\* raise inside `try` leads to.  On a connection that raises, the last
\* send_json called raises out of do_GET.
Served(h, extra, c) ==
    [route |-> h.route, responses |-> h.responses \o extra, calls |-> h.calls,
     wire |-> Transmit(h.responses \o extra, c), escaped |-> c # "connected"]

\* what a do_GET did: the route taken, the responses sent, the upstream calls
Handled(r, resps, n) == [route |-> r, responses |-> resps, calls |-> n]

ErrorBody(msg) == JObj([error |-> JStr(msg)])

(***************************************************************************)
(* astock_service.py StockHandler.do_GET                                   *)
(***************************************************************************)
\* a route of the curl service: no data -> placeholder; parse; raise -> placeholder
ServiceFetch(r, outcome, parsed, placeholder) ==
    IF NoData(ServiceCurlGet(outcome))
    THEN Handled(r, <<SendJson(placeholder, 200)>>, 1)
    ELSE IF parsed.ok THEN Handled(r, <<SendJson(parsed.val, 200)>>, 1)
    ELSE Handled(r, <<SendJson(placeholder, 200)>>, 1)

\* ServiceRoute with the industry test placed before the concept test
ServiceRouteIndustryFirst(path) ==
    LET p == PathChars(path)
    IN  IF p = PathChars(<<"health">>) THEN "health"
        ELSE IF Contains(p, PathChars(<<"index">>)) THEN "index"
        ELSE IF Contains(p, PathChars(<<"stock", "realtime", "">>)) THEN "realtime"
        ELSE IF Contains(p, PathChars(<<"industry">>)) THEN "industry"
        ELSE IF Contains(p, PathChars(<<"concept">>)) THEN "concept"
        ELSE "unknown"

\* the route tests of do_GET, in their order
ServiceRoute(path) ==
    LET p == PathChars(path)
    IN  IF p = PathChars(<<"health">>) THEN "health"
        ELSE IF p = PathChars(<<"stock", "index", "realtime">>)
                \/ Contains(p, PathChars(<<"index">>)) THEN "index"
        ELSE IF Contains(p, PathChars(<<"stock", "realtime", "">>)) THEN "realtime"
        ELSE IF p = PathChars(<<"stock", "concept">>)
                \/ Contains(p, PathChars(<<"concept">>)) THEN "concept"
        ELSE IF p = PathChars(<<"stock", "industry">>)
                \/ Contains(p, PathChars(<<"industry">>)) THEN "industry"
        ELSE "unknown"

\* ServiceHealth after a probe of the upstream
ServiceHealthProbing ==
    Handled("health", <<SendJson(JObj([status |-> JStr("ok"),
                                       service |-> JStr("A-share data service")]), 200)>>, 1)

\* the /health branch: send_json({"status": "ok", "service": ...}); return
ServiceHealth ==
    Handled("health", <<SendJson(JObj([status |-> JStr("ok"),
                                       service |-> JStr("A-share data service")]), 200)>>, 0)

ServiceDoGET(path, outcome) ==
    LET r == ServiceRoute(path)
        data == ServiceCurlGet(outcome)
        symbol == LastSegment(path)
    IN  CASE r = "health" -> ServiceHealth
          [] r = "index" -> ServiceFetch(r, outcome, ParseIndex(data), IndexPlaceholder)
          [] r = "realtime" ->
               ServiceFetch(r, outcome, ParseStock(symbol, data), StockPlaceholder(symbol))
          [] r = "concept" -> ServiceFetch(r, outcome, ParseBoard(data), ConceptPlaceholder)
          [] r = "industry" -> ServiceFetch(r, outcome, ParseBoard(data), IndustryPlaceholder)
          [] OTHER -> Handled(r, <<SendJson(ErrorBody("Unknown endpoint"), 200)>>, 0)

\* the send_json of a bare `except:` (lines 57-58, 78-79, 98-99, 118-119)
\* when the send_json inside its `try` raises on the connection: the
\* placeholder is sent after the parsed answer.  The send_json calls of the
\* /health, no-data and unmatched branches are outside any `try`.
ServiceExcept(path, outcome, c) ==
    LET r == ServiceRoute(path)
        data == ServiceCurlGet(outcome)
        symbol == LastSegment(path)
        parsed == CASE r = "index" -> ParseIndex(data)
                    [] r = "realtime" -> ParseStock(symbol, data)
                    [] OTHER -> ParseBoard(data)
        placeholder == CASE r = "index" -> IndexPlaceholder
                         [] r = "realtime" -> StockPlaceholder(symbol)
                         [] r = "concept" -> ConceptPlaceholder
                         [] OTHER -> IndustryPlaceholder
    IN  IF c # "connected" /\ r \notin {"health", "unknown"}
           /\ ~NoData(data) /\ parsed.ok
        THEN <<SendJson(placeholder, 200)>>
        ELSE <<>>

(***************************************************************************)
(* The library upstream (akshare_service.py, data_query.py).  A call       *)
(* ak.<function>() raises, or returns a DataFrame: a list of rows, a row a  *)
(* function from column labels to cells.  Column labels are glossed:       *)
(* code, name, latest_price, change_pct, volume, amount, amplitude, high,  *)
(* low, open, prev_close, title, publish_time, source, board_name, up,     *)
(* down, date, k_open, k_close, main_net, retail_net, xl_net, l_net,       *)
(* m_net, s_net, contract_code, contract_name, quarter, gdp, gdp_yoy,      *)
(* month, cpi, cpi_yoy.                                                    *)
(***************************************************************************)
TextColumns ==
    {"code", "name", "title", "publish_time", "source", "board_name", "date",
     "contract_code", "contract_name", "quarter", "month"}
CountColumns == {"up", "down"}
NumberColumns ==
    {"latest_price", "change_pct", "volume", "amount", "amplitude", "high", "low",
     "open", "prev_close", "k_open", "k_close", "main_net", "retail_net", "xl_net",
     "l_net", "m_net", "s_net", "gdp", "gdp_yoy", "cpi", "cpi_yoy"}
Columns == TextColumns \cup CountColumns \cup NumberColumns

\* the cell of row i in column col: a number, 0, NaN (a missing value) or a
\* numeric string, by row; in a "dirty" frame row 1 holds "-" for numbers
Cell(i, col, variant) ==
    IF col = "code" THEN JStr(ToString(600000 + i))
    ELSE IF col \in TextColumns THEN JStr(col \o ToString(i))
    ELSE IF col \in CountColumns THEN JInt(i)
    ELSE IF variant = "dirty" /\ i = 1 THEN JStr("-")
    ELSE CASE i % 4 = 1 -> JNum(1000 + i, 2)
           [] i % 4 = 2 -> JInt(0)
           [] i % 4 = 3 -> JNaN
           [] OTHER -> JStr("12.5")

Row(i, variant) ==
    [col \in (IF variant = "bare" THEN {} ELSE Columns) |-> Cell(i, col, variant)]

LibFrame(n, variant) == [kind |-> "frame", n |-> n, variant |-> variant, msg |-> ""]
LibRaises(msg) == [kind |-> "raise", n |-> 0, variant |-> "", msg |-> msg]

\* the rows of a returned frame
Rows(up) == [i \in 1..up.n |-> Row(i, up.variant)]

LibOutcomes ==
    {LibFrame(n, "full") : n \in 0..MaxRows}
    \cup {LibFrame(n, v) : n \in 0..2, v \in {"bare", "dirty"}}
    \cup {LibRaises("connection timed out")}

BasicLibOutcomes ==
    {LibFrame(0, "full"), LibFrame(2, "full"), LibFrame(2, "bare"), LibFrame(2, "dirty"),
     LibRaises("connection timed out")}

\* df.head(k)
FrameHead(rows, k) == SubSeq(rows, 1, IF Len(rows) < k THEN Len(rows) ELSE k)

\* row.get(col, default)
RowGet(row, col, default) == IF col \in DOMAIN row THEN row[col] ELSE default

\* float(s) of a string
ParseFloat(s) ==
    CASE s = "12.5" -> Ok(JNum(125, 1))
      [] OTHER -> Raise("could not convert string to float")

\* float(v)
ToFloat(v) ==
    CASE v.t = "num" -> Ok(v)
      [] v.t = "nan" -> Ok(v)
      [] v.t = "bool" -> Ok(JInt(IF v.b THEN 1 ELSE 0))
      [] v.t = "str" -> ParseFloat(v.s)
      [] OTHER -> Raise("float() argument must be a string or a number")

RECURSIVE Pow10(_)
Pow10(e) == IF e = 0 THEN 1 ELSE 10 * Pow10(e - 1)

\* int(v): truncation of a number; no NaN, no "12.5"
ToInt(v) ==
    CASE v.t = "num" -> Ok(JInt(v.m \div Pow10(v.e)))
      [] v.t = "bool" -> Ok(JInt(IF v.b THEN 1 ELSE 0))
      [] v.t = "nan" -> Raise("cannot convert float NaN to integer")
      [] v.t = "str" -> Raise("invalid literal for int() with base 10")
      [] OTHER -> Raise("int() argument must be a string or a number")

\* float(row.get(col, 0)) if row.get(col) else default
FloatOr(row, col, default) ==
    IF Truthy(RowGet(row, col, JNull)) THEN ToFloat(RowGet(row, col, JInt(0)))
    ELSE Ok(default)

\* int(row.get(col, 0)) if row.get(col) else 0
IntOr(row, col) ==
    IF Truthy(RowGet(row, col, JNull)) THEN ToInt(RowGet(row, col, JInt(0)))
    ELSE Ok(JInt(0))

\* str(row.get(col, ''))
StrOf(row, col) == RowGet(row, col, JStr(""))

\* a dict literal {k: e_k}: it raises what the first raising e_k raises;
\* parts is a function from the keys to Ok/Raise results, order the key order
\* of the literal
DictOf(order, parts) ==
    LET bad == {i \in 1..Len(order) : ~parts[order[i]].ok}
    IN  IF bad # {} THEN parts[order[CHOOSE i \in bad : \A j \in bad : i <= j]]
        ELSE Ok(JObj([k \in DOMAIN parts |-> parts[k].val]))

(***************************************************************************)
(* akshare_service.py StockHandler.do_GET                                  *)
(***************************************************************************)
\* limit = 100
RealtimeAllLimit == 100

\* {"symbol": row.get(code, ''), "name": row.get(name, ''),
\*  "price": float(price) if price else 0, "change": float(change) if change else 0}
AkQuote(row) ==
    DictOf(<<"symbol", "name", "price", "change">>,
           [symbol |-> Ok(RowGet(row, "code", JStr(""))),
            name |-> Ok(RowGet(row, "name", JStr(""))),
            price |-> FloatOr(row, "latest_price", JInt(0)),
            change |-> FloatOr(row, "change_pct", JInt(0))])

\* {"title": row.get(title, ''), "datetime": str(row.get(publish_time, ''))}
AkNews(row) ==
    DictOf(<<"title", "datetime">>,
           [title |-> Ok(RowGet(row, "title", JStr(""))),
            datetime |-> Ok(StrOf(row, "publish_time"))])

\* {"name": row.get(board_name, ''), "change": float(change) if change else 0}
AkBoard(row) ==
    DictOf(<<"name", "change">>,
           [name |-> Ok(RowGet(row, "board_name", JStr(""))),
            change |-> FloatOr(row, "change_pct", JInt(0))])

\* the record of the single-symbol route
AkSingle(symbol, row) ==
    DictOf(<<"symbol", "name", "price", "change", "volume">>,
           [symbol |-> Ok(JStr(symbol)),
            name |-> Ok(RowGet(row, "name", JStr(""))),
            price |-> FloatOr(row, "latest_price", JInt(0)),
            change |-> FloatOr(row, "change_pct", JInt(0)),
            volume |-> FloatOr(row, "volume", JInt(0))])

\* a list route: df = ak.<f>(); for row in df.head(k): append({...});
\* send_json; except Exception as e: send_json({"error": str(e)}, 500).
\* rounds: what the loop does for each row of df.head(k)
AkList(r, up, rounds) ==
    LET res == IF up.kind = "raise" THEN Raise(up.msg) ELSE MapAll(rounds)
    IN  IF res.ok THEN Handled(r, <<SendJson(res.val, 200)>>, 1)
        ELSE Handled(r, <<SendJson(JObj([error |-> res.val]), 500)>>, 1)

\* the single-symbol route: df[df[code] == symbol], 404 when empty
AkRealtime(r, up, symbol) ==
    LET rows == Rows(up)
        hits == {i \in 1..Len(rows) : rows[i]["code"] = JStr(symbol)}
        first == CHOOSE i \in hits : \A j \in hits : i <= j
        res == IF up.kind = "raise" THEN Raise(up.msg)
               ELSE IF up.variant = "bare" THEN Raise("'code'")
               ELSE IF hits = {} THEN Ok(JNull)
               ELSE AkSingle(symbol, rows[first])
    IN  IF ~res.ok THEN Handled(r, <<SendJson(JObj([error |-> res.val]), 500)>>, 1)
        ELSE IF hits = {} THEN Handled(r, <<SendJson(ErrorBody("stock not found"), 404)>>, 1)
        ELSE Handled(r, <<SendJson(res.val, 200)>>, 1)

\* the route tests of do_GET, in their order
AkRoute(path) ==
    LET p == PathChars(path)
    IN  IF p = PathChars(<<"health">>) THEN "health"
        ELSE IF StartsWith(p, PathChars(<<"stock", "realtime", "all">>)) THEN "realtime_all"
        ELSE IF StartsWith(p, PathChars(<<"stock", "index", "realtime">>)) THEN "index"
        ELSE IF StartsWith(p, PathChars(<<"stock", "news">>)) THEN "news"
        ELSE IF StartsWith(p, PathChars(<<"stock", "concept">>)) THEN "concept"
        ELSE IF StartsWith(p, PathChars(<<"stock", "industry">>)) THEN "industry"
        ELSE IF StartsWith(p, PathChars(<<"stock", "realtime", "">>)) THEN "realtime"
        ELSE "unknown"

\* the /health branch: send_json({"status": "ok", "service": ...}); return
AkHealth ==
    Handled("health", <<SendJson(JObj([status |-> JStr("ok"),
                                       service |-> JStr("AkShare A-share data service")]), 200)>>, 0)

AkDoGET(path, up) ==
    LET r == AkRoute(path)
    IN  CASE r = "health" -> AkHealth
          [] r = "realtime_all" ->
               LET rows == FrameHead(Rows(up), RealtimeAllLimit)
               IN  AkList(r, up, [i \in 1..Len(rows) |-> AkQuote(rows[i])])
          [] r = "index" ->
               LET rows == FrameHead(Rows(up), 10)
               IN  AkList(r, up, [i \in 1..Len(rows) |-> AkQuote(rows[i])])
          [] r = "news" ->
               LET rows == FrameHead(Rows(up), 10)
               IN  AkList(r, up, [i \in 1..Len(rows) |-> AkNews(rows[i])])
          [] r = "concept" ->
               LET rows == FrameHead(Rows(up), 20)
               IN  AkList(r, up, [i \in 1..Len(rows) |-> AkBoard(rows[i])])
          [] r = "industry" ->
               LET rows == FrameHead(Rows(up), 20)
               IN  AkList(r, up, [i \in 1..Len(rows) |-> AkBoard(rows[i])])
          [] r = "realtime" -> AkRealtime(r, up, LastSegment(path))
          [] OTHER -> Handled(r, <<SendJson(ErrorBody("Unknown endpoint"), 404)>>, 0)

\* the send_json of `except Exception as e` when the send_json inside its
\* `try` (the list, the quote or the 404 of an absent symbol) raises on the
\* connection: {"error": str(e)} with status 500 is sent after it.  A 500
\* is itself sent from the except branch; /health and the unmatched path
\* are outside any `try`.
AkExcept(path, up, c) ==
    LET h == AkDoGET(path, up)
    IN  IF c # "connected" /\ h.route \notin {"health", "unknown"}
           /\ h.responses[1].status # 500
        THEN <<SendJson(JObj([error |-> JStr(WriteError(c))]), 500)>>
        ELSE <<>>

(***************************************************************************)
(* astock.py                                                               *)
(***************************************************************************)
\* what a CLI run did: the branch taken, the lines printed, the upstream calls
Ran(r, lines, n) == [route |-> r, printed |-> lines, calls |-> n]

\* a command of astock.py: no data -> print(nodata); parse and print;
\* except: print(failed)
CliFetch(r, outcome, parsed, nodata, failed) ==
    IF NoData(CliCurlGet(outcome)) THEN Ran(r, <<Dumps(nodata)>>, 1)
    ELSE IF parsed.ok THEN Ran(r, <<Dumps(parsed.val)>>, 1)
    ELSE Ran(r, <<Dumps(failed)>>, 1)

get_index(outcome) ==
    CliFetch("index", outcome, ParseIndex(CliCurlGet(outcome)),
             JList(<<ErrorBody("fetching data failed")>>),
             JList(<<ErrorBody("parsing data failed")>>))

get_stock(symbol, outcome) ==
    CliFetch("stock", outcome, ParseStock(symbol, CliCurlGet(outcome)),
             ErrorBody("fetching data failed"), ErrorBody("parsing data failed"))

get_concept(outcome) ==
    CliFetch("concept", outcome, ParseBoard(CliCurlGet(outcome)),
             ConceptPlaceholder, ConceptPlaceholder)

get_industry(outcome) ==
    CliFetch("industry", outcome, ParseBoard(CliCurlGet(outcome)),
             IndustryPlaceholder, IndustryPlaceholder)

\* __main__: cmd = argv[1] or 'index', arg = argv[2] or ''; argv here is
\* sys.argv[1:].  No branch for another cmd: nothing is printed.
AstockMain(argv, outcome) ==
    LET cmd == IF Len(argv) > 0 THEN argv[1] ELSE "index"
        arg == IF Len(argv) > 1 THEN argv[2] ELSE ""
    IN  CASE cmd = "index" -> get_index(outcome)
          [] cmd = "stock" -> get_stock(arg, outcome)
          [] cmd = "concept" -> get_concept(outcome)
          [] cmd = "industry" -> get_industry(outcome)
          [] OTHER -> Ran("none", <<>>, 0)

AstockArgvs ==
    {<<>>, <<"index">>, <<"stock">>, <<"stock", "600001">>, <<"stock", "999999">>,
     <<"concept">>, <<"industry">>, <<"help">>, <<"news">>}

\* subprocess.run has no timeout= here: TimeoutExpired is not raised
AstockOutcomes == {o \in CurlOutcomes : o.kind # "timeout"}

(***************************************************************************)
(* data_query.py                                                           *)
(***************************************************************************)
\* get_timestamp(): datetime.now().isoformat(), the text of the clock
get_timestamp(time) == JStr(ToString(time))

\* error_response with the time of the failure written into the message
error_response_timed(msg, time) ==
    Dumps(JObj([success |-> JBool(FALSE), error |-> JStr(msg \o " at " \o ToString(time)),
                timestamp |-> get_timestamp(time)]))

error_response(msg, time) ==
    Dumps(JObj([success |-> JBool(FALSE), error |-> JStr(msg),
                timestamp |-> get_timestamp(time)]))

success_response(data, time) ==
    Dumps(JObj([success |-> JBool(TRUE), data |-> data,
                timestamp |-> get_timestamp(time), source |-> JStr("akshare")]))

\* the record of get_a_stock_realtime
DqStock(row) ==
    DictOf(<<"symbol", "name", "price", "change", "volume", "amount", "amplitude", "high", "low", "open", "close">>,
           [symbol |-> Ok(RowGet(row, "code", JStr(""))),
            name |-> Ok(RowGet(row, "name", JStr(""))),
            price |-> FloatOr(row, "latest_price", JNull),
            change |-> FloatOr(row, "change_pct", JInt(0)),
            volume |-> Ok(RowGet(row, "volume", JStr(""))),
            amount |-> Ok(RowGet(row, "amount", JStr(""))),
            amplitude |-> FloatOr(row, "amplitude", JInt(0)),
            high |-> FloatOr(row, "high", JNull),
            low |-> FloatOr(row, "low", JNull),
            open |-> FloatOr(row, "open", JNull),
            close |-> FloatOr(row, "prev_close", JNull)])

\* the record of get_a_stock_kline
DqKline(row) ==
    DictOf(<<"date", "open", "close", "high", "low", "volume", "amount">>,
           [date |-> Ok(StrOf(row, "date")),
            open |-> FloatOr(row, "k_open", JNull),
            close |-> FloatOr(row, "k_close", JNull),
            high |-> FloatOr(row, "high", JNull),
            low |-> FloatOr(row, "low", JNull),
            volume |-> FloatOr(row, "volume", JInt(0)),
            amount |-> FloatOr(row, "amount", JInt(0))])

\* the record of get_fund_flow
DqFundFlow(row) ==
    DictOf(<<"date", "main_net", "retail_net", "xl_net", "l_net", "m_net", "s_net">>,
           [date |-> Ok(StrOf(row, "date")),
            main_net |-> FloatOr(row, "main_net", JInt(0)),
            retail_net |-> FloatOr(row, "retail_net", JInt(0)),
            xl_net |-> FloatOr(row, "xl_net", JInt(0)),
            l_net |-> FloatOr(row, "l_net", JInt(0)),
            m_net |-> FloatOr(row, "m_net", JInt(0)),
            s_net |-> FloatOr(row, "s_net", JInt(0))])

\* the record of get_index_realtime
DqIndex(row) ==
    DictOf(<<"symbol", "name", "price", "change", "volume", "amount">>,
           [symbol |-> Ok(RowGet(row, "code", JStr(""))),
            name |-> Ok(RowGet(row, "name", JStr(""))),
            price |-> FloatOr(row, "latest_price", JNull),
            change |-> FloatOr(row, "change_pct", JInt(0)),
            volume |-> Ok(RowGet(row, "volume", JStr(""))),
            amount |-> Ok(RowGet(row, "amount", JStr("")))])

\* the record of get_futures_realtime
DqFutures(row) ==
    DictOf(<<"symbol", "name", "latest_price", "change", "volume", "amount">>,
           [symbol |-> Ok(RowGet(row, "contract_code", JStr(""))),
            name |-> Ok(RowGet(row, "contract_name", JStr(""))),
            latest_price |-> FloatOr(row, "latest_price", JNull),
            change |-> FloatOr(row, "change_pct", JInt(0)),
            volume |-> Ok(RowGet(row, "volume", JStr(""))),
            amount |-> Ok(RowGet(row, "amount", JStr("")))])

\* the record of get_etf_realtime
DqEtf(row) ==
    DictOf(<<"symbol", "name", "price", "change", "volume">>,
           [symbol |-> Ok(RowGet(row, "code", JStr(""))),
            name |-> Ok(RowGet(row, "name", JStr(""))),
            price |-> FloatOr(row, "latest_price", JNull),
            change |-> FloatOr(row, "change_pct", JInt(0)),
            volume |-> Ok(RowGet(row, "volume", JStr("")))])

\* the record of get_concept_board
DqConcept(row) ==
    DictOf(<<"name", "change", "volume", "up_count", "down_count">>,
           [name |-> Ok(RowGet(row, "board_name", JStr(""))),
            change |-> FloatOr(row, "change_pct", JInt(0)),
            volume |-> Ok(RowGet(row, "amount", JStr(""))),
            up_count |-> IntOr(row, "up"),
            down_count |-> IntOr(row, "down")])

\* the record of get_industry_board
DqIndustry(row) ==
    DictOf(<<"name", "change", "volume">>,
           [name |-> Ok(RowGet(row, "board_name", JStr(""))),
            change |-> FloatOr(row, "change_pct", JInt(0)),
            volume |-> Ok(RowGet(row, "amount", JStr("")))])

\* the record of get_macro_gdp
DqGdp(row) ==
    DictOf(<<"quarter", "gdp", "gdp_yoy">>,
           [quarter |-> Ok(StrOf(row, "quarter")),
            gdp |-> FloatOr(row, "gdp", JNull),
            gdp_yoy |-> FloatOr(row, "gdp_yoy", JNull)])

\* the record of get_macro_cpi
DqCpi(row) ==
    DictOf(<<"month", "cpi", "cpi_yoy">>,
           [month |-> Ok(StrOf(row, "month")),
            cpi |-> FloatOr(row, "cpi", JNull),
            cpi_yoy |-> FloatOr(row, "cpi_yoy", JNull)])

\* the record of get_stock_news
DqNews(row) ==
    DictOf(<<"title", "datetime", "source">>,
           [title |-> Ok(RowGet(row, "title", JStr(""))),
            datetime |-> Ok(StrOf(row, "publish_time")),
            source |-> Ok(RowGet(row, "source", JStr("")))])

\* a get_* function: df = ak.<f>(); for row in rows: append({...});
\* success_response(result); except Exception as e: error_response(...).
\* rounds: what the loop does for each row
DqFetch(up, rounds, time) ==
    LET res == IF up.kind = "raise" THEN Raise(up.msg) ELSE MapAll(rounds)
    IN  IF res.ok THEN success_response(res.val, time)
        ELSE error_response("fetch failed: " \o res.val.s, time)

get_a_stock_realtime(up, time) ==
    LET rows == FrameHead(Rows(up), 100)
    IN  DqFetch(up, [i \in 1..Len(rows) |-> DqStock(rows[i])], time)
\* symbol, period and start_date (30 days before now) go to the upstream call
get_a_stock_kline(up, time) ==
    LET rows == Rows(up)
    IN  DqFetch(up, [i \in 1..Len(rows) |-> DqKline(rows[i])], time)
get_fund_flow(up, time) ==
    LET rows == FrameHead(Rows(up), 10)
    IN  DqFetch(up, [i \in 1..Len(rows) |-> DqFundFlow(rows[i])], time)
get_index_realtime(up, time) ==
    LET rows == FrameHead(Rows(up), 20)
    IN  DqFetch(up, [i \in 1..Len(rows) |-> DqIndex(rows[i])], time)
get_futures_realtime(up, time) ==
    LET rows == FrameHead(Rows(up), 20)
    IN  DqFetch(up, [i \in 1..Len(rows) |-> DqFutures(rows[i])], time)
get_etf_realtime(up, time) ==
    LET rows == FrameHead(Rows(up), 30)
    IN  DqFetch(up, [i \in 1..Len(rows) |-> DqEtf(rows[i])], time)
get_concept_board(up, time) ==
    LET rows == FrameHead(Rows(up), 30)
    IN  DqFetch(up, [i \in 1..Len(rows) |-> DqConcept(rows[i])], time)
get_industry_board(up, time) ==
    LET rows == FrameHead(Rows(up), 30)
    IN  DqFetch(up, [i \in 1..Len(rows) |-> DqIndustry(rows[i])], time)
get_macro_gdp(up, time) ==
    LET rows == Rows(up)
    IN  DqFetch(up, [i \in 1..Len(rows) |-> DqGdp(rows[i])], time)
get_macro_cpi(up, time) ==
    LET rows == Rows(up)
    IN  DqFetch(up, [i \in 1..Len(rows) |-> DqCpi(rows[i])], time)
get_stock_news(up, time) ==
    LET rows == FrameHead(Rows(up), 20)
    IN  DqFetch(up, [i \in 1..Len(rows) |-> DqNews(rows[i])], time)

\* the help object: {"commands": {...}}
HelpObject ==
    JObj([commands |-> JObj([c \in {"stock", "kline <symbol> [period]", "fundflow <symbol>",
                                    "index", "futures [symbol]", "etf", "concept",
                                    "industry", "gdp", "cpi", "news"} |-> JStr("about " \o c)])])

\* main(): cmd = argv[1] or "help"; argv here is sys.argv[1:]
DataQueryMain(argv, up, time) ==
    LET cmd == IF Len(argv) > 0 THEN argv[1] ELSE "help"
    IN  CASE cmd = "stock" -> Ran(cmd, <<get_a_stock_realtime(up, time)>>, 1)
          [] cmd = "kline" -> Ran(cmd, <<get_a_stock_kline(up, time)>>, 1)
          [] cmd = "fundflow" -> Ran(cmd, <<get_fund_flow(up, time)>>, 1)
          [] cmd = "index" -> Ran(cmd, <<get_index_realtime(up, time)>>, 1)
          [] cmd = "futures" -> Ran(cmd, <<get_futures_realtime(up, time)>>, 1)
          [] cmd = "etf" -> Ran(cmd, <<get_etf_realtime(up, time)>>, 1)
          [] cmd = "concept" -> Ran(cmd, <<get_concept_board(up, time)>>, 1)
          [] cmd = "industry" -> Ran(cmd, <<get_industry_board(up, time)>>, 1)
          [] cmd = "gdp" -> Ran(cmd, <<get_macro_gdp(up, time)>>, 1)
          [] cmd = "cpi" -> Ran(cmd, <<get_macro_cpi(up, time)>>, 1)
          [] cmd = "news" -> Ran(cmd, <<get_stock_news(up, time)>>, 1)
          [] OTHER -> Ran("help", <<Dumps(HelpObject)>>, 0)

DataQueryArgvs ==
    {<<>>, <<"stock">>, <<"kline">>, <<"kline", "600001", "weekly">>, <<"fundflow">>,
     <<"fundflow", "600001">>, <<"index">>, <<"futures">>, <<"futures", "IF">>,
     <<"etf">>, <<"concept">>, <<"industry">>, <<"gdp">>, <<"cpi">>, <<"news">>,
     <<"help">>, <<"bogus">>}

(***************************************************************************)
(* The state machine.  A handler keeps nothing between two requests: what  *)
(* it does is a function of the request, the upstream's answer and the     *)
(* clock.  Init draws the deployed script, the request and the upstream's  *)
(* answer; each action is one whole handling of that request, at the time  *)
(* of the clock or later.  Taking the action again is the same request     *)
(* sent again to an upstream that answers the same.                        *)
(*   script     the script that is run                                     *)
(*   request    self.path as segments (HTTP), sys.argv[1:] (CLI)           *)
(*   upstream   what the upstream call answers                             *)
(*   client     the client's end of the connection (HTTP); a CLI run       *)
(*              writes to its terminal, which stays "connected"            *)
(*   now        the clock, datetime.now()                                  *)
(*   route      the branch of the dispatcher taken by the last handling    *)
(*   responses  the send_json calls it made, in order                      *)
(*   wire       what its writes put on the connection                      *)
(*   escaped    whether do_GET raised to its caller                        *)
(*   printed    the lines it printed with print(json...)                   *)
(*   console    the server's log lines (log_message, curl_get's print)     *)
(*   calls      the number of upstream calls it made                       *)
(*   exitCode   the exit code of the CLI process, -1 while none has ended  *)
(*   prev       what the handling before the last one sent and printed     *)
(***************************************************************************)
ServiceInputs ==
    (Paths \X BasicCurlOutcomes) \cup (CanonicalPaths \X CurlOutcomes)
AkInputs ==
    (Paths \X BasicLibOutcomes) \cup (CanonicalPaths \X LibOutcomes)
AstockInputs == AstockArgvs \X AstockOutcomes
DataQueryInputs == DataQueryArgvs \X LibOutcomes

NotHandled == [time |-> 0 - 1, responses |-> <<>>, printed |-> <<>>]
Handling == [time |-> now, responses |-> responses, printed |-> printed]

Init ==
    /\ script \in {"akshare_service", "astock_service", "astock", "data_query"}
    /\ \E input \in (CASE script = "akshare_service" -> AkInputs
                       [] script = "astock_service" -> ServiceInputs
                       [] script = "astock" -> AstockInputs
                       [] OTHER -> DataQueryInputs) :
          request = input[1] /\ upstream = input[2]
    /\ client \in (IF script \in {"akshare_service", "astock_service"}
                      /\ request \in CanonicalPaths
                      /\ upstream \in BasicCurlOutcomes \cup BasicLibOutcomes
                   THEN Clients ELSE {"connected"})
    /\ now = 0
    /\ route = "" /\ responses = <<>> /\ printed = <<>> /\ console = <<>>
    /\ wire = <<>> /\ escaped = FALSE
    /\ calls = 0 /\ exitCode = 0 - 1
    /\ prev = NotHandled

\* log_message: send_response logs the request, so one line per send_json
\* call, stamped with the clock
LogLines(resps, time) ==
    [i \in 1..Len(resps) |-> [line |-> "request", status |-> resps[i].status, time |-> time]]

\* an HTTP handling at `time`
Serve(h, time, lines) ==
    /\ now' = time
    /\ route' = h.route /\ responses' = h.responses /\ calls' = h.calls
    /\ wire' = h.wire /\ escaped' = h.escaped
    /\ printed' = <<>> /\ exitCode' = exitCode
    /\ console' = lines \o LogLines(h.responses, time)
    /\ prev' = IF route = "" THEN NotHandled ELSE Handling
    /\ UNCHANGED <<script, request, upstream, client>>

\* a CLI run at `time`: the process ends by falling off the end, exit code 0
Run(h, time) ==
    /\ now' = time
    /\ route' = h.route /\ printed' = h.printed /\ calls' = h.calls
    /\ responses' = <<>> /\ exitCode' = 0 /\ console' = <<>>
    /\ wire' = <<>> /\ escaped' = FALSE
    /\ prev' = IF route = "" THEN NotHandled ELSE Handling
    /\ UNCHANGED <<script, request, upstream, client>>

AkshareServiceGET ==
    /\ script = "akshare_service"
    /\ \E time \in now..MaxClock :
          Serve(Served(AkDoGET(request, upstream),
                       AkExcept(request, upstream, client), client), time, <<>>)

AstockServiceGET ==
    /\ script = "astock_service"
    /\ \E time \in now..MaxClock :
          Serve(Served(ServiceDoGET(request, upstream),
                       ServiceExcept(request, upstream, client), client), time,
                IF ServiceRoute(request) \notin {"health", "unknown"}
                   /\ upstream.kind # "completed"
                THEN <<[line |-> "curl error", status |-> 0, time |-> time]>> ELSE <<>>)

AstockRun ==
    /\ script = "astock"
    /\ \E time \in now..MaxClock : Run(AstockMain(request, upstream), time)

DataQueryRun ==
    /\ script = "data_query"
    /\ \E time \in now..MaxClock : Run(DataQueryMain(request, upstream, time), time)

Next == AkshareServiceGET \/ AstockServiceGET \/ AstockRun \/ DataQueryRun

Spec == Init /\ [][Next]_vars

(***************************************************************************)
(* What the claims read off a state.                                       *)
(***************************************************************************)
\* the request has been handled at least once
handled == route # ""
\* the client is there to be answered (always so for a CLI run)
Connected == client = "connected"
IsHttp == script \in {"akshare_service", "astock_service"}
IsCli == script \in {"astock", "data_query"}
IsCurl == script \in {"astock_service", "astock"}
\* the JSON documents emitted by the last handling, in order
Emitted ==
    IF IsHttp THEN [i \in 1..Len(responses) |-> responses[i].body.doc]
    ELSE [i \in 1..Len(printed) |-> printed[i].doc]
HasField(doc, k) == doc.t = "obj" /\ k \in DOMAIN doc.fields
\* an object with symbol, name, price and change
IsQuote(doc) == \A k \in {"symbol", "name", "price", "change"} : HasField(doc, k)
\* what curl_get of the script returns for the upstream's answer
CurlData == IF script = "astock" THEN CliCurlGet(upstream) ELSE ServiceCurlGet(upstream)
\* the document curl received, when it is one
CurlDoc == upstream.stdout.doc
CurlGotJson == upstream.kind = "completed" /\ upstream.stdout.text = "json"

(***************************************************************************)
(* C1.  GET /stock/realtime/{symbol} for a symbol absent from the upstream *)
(* data is answered, in both services, by one response of status 404 whose *)
(* body has an "error" field, never by a quote record.                     *)
(***************************************************************************)
SymbolRequest ==
    /\ IsHttp /\ Len(request) = 3
    /\ request[1] = "stock" /\ request[2] = "realtime"
    /\ request[3] \in {"600001", "999999"}
\* the library's frame has the code column and no row of that code; the
\* curl upstream answers {"data": null}, its answer for an unknown secid
SymbolAbsent ==
    IF script = "akshare_service"
    THEN /\ upstream.kind = "frame" /\ upstream.variant # "bare"
         /\ \A i \in 1..upstream.n : Row(i, upstream.variant)["code"] # JStr(request[3])
    ELSE CurlGotJson /\ upstream.rc = 0 /\ CurlDoc = DataDoc(JNull)

C1_AbsentSymbolIs404 ==
    (handled /\ Connected /\ SymbolRequest /\ SymbolAbsent) =>
        /\ Len(responses) = 1
        /\ responses[1].status = 404
        /\ HasField(Emitted[1], "error")
        /\ ~IsQuote(Emitted[1])

(***************************************************************************)
(* C2.  GET /stock/realtime/all goes, in both services, to a list handler  *)
(* that returns an array of at most 100 quotes; it is never handled as the *)
(* single-symbol request for the symbol "all".                             *)
(***************************************************************************)
C2_RealtimeAllIsList ==
    (handled /\ Connected /\ IsHttp /\ request = <<"stock", "realtime", "all">>) =>
        /\ route = "realtime_all"
        /\ Len(responses) = 1
        /\ responses[1].status = 200 =>
              /\ Emitted[1].t = "list"
              /\ Len(Emitted[1].items) <= 100

(***************************************************************************)
(* C3.  Original: every path containing "/concept" is dispatched to the    *)
(* concept-board handler, whatever else it contains.                       *)
(* Amended: a path containing "/concept" is dispatched to the concept-board *)
(* handler when no earlier route test of do_GET takes it: in astock_service *)
(* when it contains neither "/index" nor "/stock/realtime/"; in            *)
(* akshare_service, whose tests are prefix tests, when it starts with      *)
(* "/stock/concept".  Then one upstream call is made.                      *)
(***************************************************************************)
HasConcept == Contains(PathChars(request), PathChars(<<"concept">>))

C3_AnyConceptPath ==
    (handled /\ IsHttp /\ HasConcept) => route = "concept"

C3_ConceptUnlessEarlierRoute ==
    /\ (/\ handled /\ script = "astock_service" /\ HasConcept
        /\ ~Contains(PathChars(request), PathChars(<<"index">>))
        /\ ~Contains(PathChars(request), PathChars(<<"stock", "realtime", "">>)))
       => (route = "concept" /\ calls = 1)
    /\ (/\ handled /\ script = "akshare_service"
        /\ StartsWith(PathChars(request), PathChars(<<"stock", "concept">>)))
       => (route = "concept" /\ calls = 1)

\* a path with "/concept" and "/industry" both, taken by the concept handler
C3_Witness ==
    /\ handled /\ script = "astock_service" /\ route = "concept"
    /\ request = <<"industry", "concept">>

(***************************************************************************)
(* C4.  GET /health is answered, in both services and whatever the         *)
(* upstream would do, by one response of status 200 whose body has         *)
(* "status": "ok", and no upstream call is made.                           *)
(***************************************************************************)
C4_HealthAlwaysOk ==
    (handled /\ IsHttp /\ request = <<"health">>) =>
        /\ Len(responses) = 1
        /\ responses[1].status = 200
        /\ HasField(Emitted[1], "status")
        /\ Emitted[1].fields["status"] = JStr("ok")
        /\ calls = 0

\* /health handled while the upstream is failing
C4_Witness ==
    /\ handled /\ request = <<"health">>
    /\ \/ script = "astock_service" /\ upstream.kind = "timeout"
       \/ script = "akshare_service" /\ upstream.kind = "raise"
    /\ Len(responses) = 1

(***************************************************************************)
(* C5.  A list endpoint emits at most its documented cap, by truncation in *)
(* the handler: realtime-all 100; index 10 in the services, 20 in          *)
(* data_query; concept and industry boards 20 in the services, 30 in       *)
(* data_query.  The emitted records are the first min(n, cap) records of   *)
(* the upstream, in its order.                                             *)
(***************************************************************************)
Cap ==
    CASE route \in {"realtime_all", "stock"} -> 100
      [] route = "index" -> IF script = "data_query" THEN 20 ELSE 10
      [] route \in {"concept", "industry"} -> IF script = "data_query" THEN 30 ELSE 20
      [] OTHER -> 0

\* the emitted list of records, when the handling emitted one
EmittedList ==
    IF Emitted = <<>> THEN <<>>
    ELSE IF Emitted[1].t = "list" THEN Emitted[1].items
    ELSE IF HasField(Emitted[1], "data") /\ Emitted[1].fields["data"].t = "list"
         THEN Emitted[1].fields["data"].items
    ELSE <<>>

\* the records the upstream returned, by the key the endpoint names them with
UpstreamNames ==
    IF ~IsCurl
    THEN [i \in 1..upstream.n |->
            Cell(i, IF route \in {"concept", "industry"} THEN "board_name" ELSE "code", "full")]
    ELSE IF route = "index" THEN [i \in 1..Len(CurlDoc.fields["data"].items) |->
            DictGet(CurlDoc.fields["data"].items[i], "f12", JStr("")).val]
    ELSE [i \in 1..Len(CurlDoc.fields["data"].fields["diff"].items) |->
            DictGet(CurlDoc.fields["data"].fields["diff"].items[i], "f14", JStr("")).val]

EmittedNames ==
    [i \in 1..Len(EmittedList) |->
        EmittedList[i].fields[IF route \in {"concept", "industry"} THEN "name" ELSE "symbol"]]

\* a list endpoint answered with the records of a well-formed upstream answer
ListAnswered ==
    /\ handled /\ script # "astock"
    /\ route \in {"realtime_all", "index", "concept", "industry"}
    /\ IF ~IsCurl THEN upstream.kind = "frame" /\ upstream.variant = "full"
       ELSE /\ CurlGotJson /\ upstream.rc = 0
            /\ \E n \in 0..MaxDiff :
                  CurlDoc = (IF route = "index" THEN DataDoc(Recs(n)) ELSE DataDoc(DiffObj(Recs(n))))

C5_ListsAreCapped ==
    ListAnswered =>
        /\ Len(EmittedList) <= Cap
        /\ Len(EmittedList) = (IF Len(UpstreamNames) < Cap THEN Len(UpstreamNames) ELSE Cap)
        /\ EmittedNames = SubSeq(UpstreamNames, 1, Len(EmittedList))

(***************************************************************************)
(* The failure classes of a handling.                                      *)
(***************************************************************************)
\* the parse the route of a curl script applies to what curl_get returned
ParseOf ==
    CASE route = "index" -> ParseIndex(CurlData)
      [] route \in {"realtime", "stock"} -> ParseStock(LastSegment(request), CurlData)
      [] OTHER -> ParseBoard(CurlData)

\* (a) the upstream was called and was unreachable, timed out or gave nothing
UpstreamFailed ==
    /\ calls >= 1
    /\ IF IsCurl THEN TransferFailed(upstream) \/ NoData(CurlData)
       ELSE upstream.kind = "raise"

\* (b) the upstream answered and its answer cannot be parsed or converted:
\* no JSON or not the expected shape (curl); a "-" where a number is
\* converted, or no code column to select the symbol by (library)
NormalizeFailed ==
    /\ calls >= 1 /\ ~UpstreamFailed
    /\ IF IsCurl THEN ~ParseOf.ok
       ELSE \/ /\ upstream.variant = "dirty" /\ upstream.n >= 1
               /\ \/ route \notin {"news", "realtime"}
                  \/ route = "realtime" /\ LastSegment(request) = "600001"
            \/ upstream.variant = "bare" /\ route = "realtime"

\* a JSON error payload: an "error" field or "success": false, in the
\* object or in the one object of a one-element array
IsErrorObject(doc) ==
    \/ HasField(doc, "error")
    \/ HasField(doc, "success") /\ doc.fields["success"] = JBool(FALSE)
IsErrorPayload(doc) ==
    \/ IsErrorObject(doc)
    \/ doc.t = "list" /\ Len(doc.items) = 1 /\ IsErrorObject(doc.items[1])

(***************************************************************************)
(* C6.  For every path and subcommand of the four scripts and each failure *)
(* class (upstream unreachable or timed out, answer unparseable, entity    *)
(* not found, unknown endpoint or command) the handler emits exactly one   *)
(* JSON error payload; an unknown CLI subcommand still gets a JSON payload. *)
(***************************************************************************)
C6_FailuresAreJsonErrors ==
    (handled /\ Connected) =>
        /\ (UpstreamFailed \/ NormalizeFailed \/ (SymbolRequest /\ SymbolAbsent))
              => (Len(Emitted) = 1 /\ IsErrorPayload(Emitted[1]))
        /\ route = "unknown" => (Len(Emitted) = 1 /\ IsErrorPayload(Emitted[1]))
        /\ route \in {"none", "help"} => Len(Emitted) = 1

(***************************************************************************)
(* C7.  curl_get (both copies) returns the no-data value (None or empty    *)
(* output) whenever the transfer failed: curl exited non-zero, timed out   *)
(* or could not be run.  What a failed transfer wrote is never handed to   *)
(* the caller as data.                                                     *)
(***************************************************************************)
C7_FailedTransferIsNoData ==
    (handled /\ IsCurl /\ calls = 1 /\ TransferFailed(upstream)) => NoData(CurlData)

(***************************************************************************)
(* C8.  A CLI run (data_query.py, astock.py) whose upstream call or        *)
(* normalization fails ends with exit code 0 and prints one payload that   *)
(* has an "error" field or "success": false, never a payload that reads    *)
(* as a successful one.                                                    *)
(***************************************************************************)
\* the run got no data from its upstream call, or its normalization raised
RunFailed ==
    /\ calls >= 1
    /\ IF IsCurl THEN NoData(CurlData) \/ ~ParseOf.ok
       ELSE upstream.kind = "raise" \/ NormalizeFailed

C8_CliFailureIsMarked ==
    (handled /\ IsCli /\ RunFailed) =>
        /\ exitCode = 0
        /\ Len(printed) = 1
        /\ IsErrorPayload(Emitted[1])

(***************************************************************************)
(* C9.  Original: two identical requests at different times against an     *)
(* upstream that answers the same produce identical payloads; no output    *)
(* field depends on the time of the request.                               *)
(* Amended: they produce payloads that are identical but for the           *)
(* "timestamp" field of data_query.py's response envelope, which is the    *)
(* time of the request; the payloads of the two services, of astock.py and *)
(* of data_query.py's help are identical.                                  *)
(***************************************************************************)
\* the same request was handled before, at prev.time
HandledTwice == handled /\ prev.time >= 0

WithoutTimestamp(text) ==
    IF HasField(text.doc, "timestamp")
    THEN Dumps(JObj([k \in DOMAIN text.doc.fields \ {"timestamp"} |-> text.doc.fields[k]]))
    ELSE text

C9_IdenticalPayloads ==
    (HandledTwice /\ prev.time # now) =>
        (prev.responses = responses /\ prev.printed = printed)

C9_IdenticalButTimestamp ==
    HandledTwice =>
        /\ prev.responses = responses
        /\ Len(prev.printed) = Len(printed)
        /\ \A i \in 1..Len(printed) :
              /\ WithoutTimestamp(prev.printed[i]) = WithoutTimestamp(printed[i])
              /\ HasField(printed[i].doc, "timestamp") =>
                    /\ printed[i].doc.fields["timestamp"] = JStr(ToString(now))
                    /\ prev.printed[i].doc.fields["timestamp"] = JStr(ToString(prev.time))
        /\ (script # "data_query" \/ route = "help") => prev.printed = printed

\* data_query.py index run twice, at two times, against the same rows
C9_Witness ==
    /\ HandledTwice /\ prev.time < now
    /\ script = "data_query" /\ route = "index" /\ upstream.kind = "frame"
    /\ upstream.n >= 2
    /\ prev.printed # printed

(***************************************************************************)
(* C10.  When the upstream's answer parses to an object whose data.diff is *)
(* a list of records, the concept-board command (astock.py get_concept,    *)
(* the /concept handler of astock_service) outputs a list of the same      *)
(* length and order whose i-th element is exactly {"name": f14 of the i-th *)
(* record or "" if absent, "change": f3 of the i-th record or 0 if         *)
(* absent}: diff [{f14: n, f3: 3.25}] yields [{"name": n, "change": 3.25}]. *)
(* The output of the service is what it sends to a client that is still    *)
(* connected.                                                              *)
(***************************************************************************)
\* the answer is {"data": {"diff": [records]}}, possibly with other keys
DiffOfRecords ==
    /\ CurlGotJson
    /\ HasField(CurlDoc, "data") /\ HasField(CurlDoc.fields["data"], "diff")
    /\ CurlDoc.fields["data"].fields["diff"].t = "list"
    /\ \A i \in 1..Len(CurlDoc.fields["data"].fields["diff"].items) :
          CurlDoc.fields["data"].fields["diff"].items[i].t = "obj"
Diff == CurlDoc.fields["data"].fields["diff"].items

ConceptCommand == handled /\ Connected /\ IsCurl /\ route = "concept"

C10_ConceptBoardMapping ==
    (ConceptCommand /\ DiffOfRecords) =>
        /\ Len(Emitted) = 1
        /\ IsHttp => responses[1].status = 200
        /\ Emitted[1].t = "list"
        /\ Len(Emitted[1].items) = Len(Diff)
        /\ \A i \in 1..Len(Diff) :
              /\ Emitted[1].items[i].t = "obj"
              /\ DOMAIN Emitted[1].items[i].fields = {"name", "change"}
              /\ Emitted[1].items[i].fields["name"] =
                    (IF "f14" \in DOMAIN Diff[i].fields THEN Diff[i].fields["f14"] ELSE JStr(""))
              /\ Emitted[1].items[i].fields["change"] =
                    (IF "f3" \in DOMAIN Diff[i].fields THEN Diff[i].fields["f3"] ELSE JInt(0))

\* the example of the claim, with records lacking f3 and f14 after it
C10_Witness ==
    /\ ConceptCommand /\ DiffOfRecords /\ Len(Diff) >= 3
    /\ Diff[1] = JObj([f14 |-> JStr("board1"), f3 |-> JNum(325, 2)])
    /\ Emitted[1].items[1] = JObj([name |-> JStr("board1"), change |-> JNum(325, 2)])
    /\ Emitted[1].items[2].fields["change"] = JInt(0)
    /\ Emitted[1].items[3].fields["name"] = JStr("")

(***************************************************************************)
(* C11.  Every HTTP response carries Content-Type application/json, and    *)
(* its status follows the outcome of the request: 500 exactly when the     *)
(* upstream call or the normalization raised; 404 when the requested       *)
(* symbol is not found or no route matches (200 for the unmatched path in  *)
(* astock_service), the unmatched body being {"error": "Unknown           *)
(* endpoint"}; 200 otherwise.                                              *)
(***************************************************************************)
\* the upstream call raised: subprocess.run in curl_get, ak.<function>()
CallRaised ==
    /\ calls >= 1
    /\ IF IsCurl THEN upstream.kind # "completed" ELSE upstream.kind = "raise"

\* the call returned and the normalization of what it returned raised
NormalizeRaised ==
    /\ calls >= 1 /\ ~CallRaised
    /\ IF IsCurl THEN ~NoData(CurlData) /\ ~ParseOf.ok ELSE NormalizeFailed

\* the single-symbol route found no record of the symbol
SymbolNotFound ==
    /\ route = "realtime"
    /\ IF script = "akshare_service"
       THEN /\ upstream.kind = "frame" /\ upstream.variant # "bare"
            /\ \A i \in 1..upstream.n :
                  Row(i, upstream.variant)["code"] # JStr(LastSegment(request))
       ELSE CurlGotJson /\ CurlDoc = DataDoc(JNull)

\* the status the outcome of the request determines
StatusOfOutcome ==
    IF CallRaised \/ NormalizeRaised THEN 500
    ELSE IF SymbolNotFound THEN 404
    ELSE IF route = "unknown" THEN (IF script = "astock_service" THEN 200 ELSE 404)
    ELSE 200

\* read off the connection: every status line and header block written,
\* every body written
C11_StatusFollowsOutcome ==
    (handled /\ IsHttp) =>
        \A k \in 1..Len(wire) :
            /\ wire[k].part = "head" =>
                  /\ wire[k].ctype = "application/json"
                  /\ wire[k].status = StatusOfOutcome
            /\ (wire[k].part = "body" /\ route = "unknown") =>
                  wire[k].body = Dumps(ErrorBody("Unknown endpoint"))

(***************************************************************************)
(* C12.  In every normalizer of the four scripts a numeric output field    *)
(* (price, change, volume, high, low, open, close) is emitted as 0 or null *)
(* when its upstream field is absent, empty or otherwise falsy, and as a   *)
(* number when the upstream value is a numeric string; an upstream value   *)
(* is never passed through as a string, and a missing or empty value never *)
(* makes the handler fail.                                                 *)
(***************************************************************************)
NumericFields == {"price", "change", "volume", "high", "low", "open", "close"}

\* the records of the payload: the items of the list, or the one quote
EmittedRecords ==
    IF EmittedList # <<>> THEN EmittedList
    ELSE IF Emitted # <<>> /\ IsQuote(Emitted[1]) THEN <<Emitted[1]>>
    ELSE <<>>

\* the numeric fields of the i-th record of the payload
NumericKeys(i) ==
    IF EmittedRecords[i].t = "obj" THEN NumericFields \cap DOMAIN EmittedRecords[i].fields
    ELSE {}

ZeroOrNull(v) == v = JInt(0) \/ v = JNull

\* the handling ended in its success branch
Succeeded ==
    /\ Len(Emitted) = 1
    /\ IF script = "data_query" THEN Emitted[1].fields["success"] = JBool(TRUE)
       ELSE IF IsHttp THEN responses[1].status = 200 /\ ~IsErrorPayload(Emitted[1])
       ELSE ~IsErrorPayload(Emitted[1])

\* a route of a library script that maps the rows of the frame one by one,
\* answered with a frame whose number cells are numbers, 0, NaN or "12.5"
\* (full) or with a frame lacking every column (bare)
LibraryRows ==
    /\ handled /\ Connected /\ ~IsCurl /\ calls = 1 /\ route # "realtime"
    /\ upstream.kind = "frame" /\ upstream.variant \in {"full", "bare"}

\* a list route of a curl script answered with a list of records; the
\* output field price is read from f2, change from f3
CurlRows ==
    /\ handled /\ Connected /\ IsCurl /\ calls = 1 /\ CurlGotJson /\ upstream.rc = 0
    /\ \/ route = "index" /\ \E n \in 1..MaxDiff : CurlDoc = DataDoc(Recs(n))
       \/ /\ route \in {"concept", "industry"}
          /\ \E n \in 1..MaxDiff : CurlDoc = DataDoc(DiffObj(Recs(n)))

SourceKey(k) == IF k = "price" THEN "f2" ELSE "f3"

C12_NumericCoercion ==
    /\ handled =>
          \A i \in 1..Len(EmittedRecords) : \A k \in NumericKeys(i) :
              EmittedRecords[i].fields[k].t # "str"
    /\ LibraryRows =>
          /\ Succeeded
          /\ \A i \in 1..Len(EmittedRecords) : \A k \in NumericKeys(i) :
                /\ (upstream.variant = "bare" \/ i % 4 = 2)
                      => ZeroOrNull(EmittedRecords[i].fields[k])
                /\ (upstream.variant = "full" /\ i % 4 = 0)
                      => EmittedRecords[i].fields[k] = JNum(125, 1)
    /\ CurlRows =>
          /\ Succeeded
          /\ \A i \in 1..Len(EmittedRecords) : \A k \in NumericKeys(i) :
                (SourceKey(k) \notin RecKeys(i) \/ ~Truthy(RecField(i, SourceKey(k))))
                    => ZeroOrNull(EmittedRecords[i].fields[k])

(***************************************************************************)
(* C13.  In both HTTP services every do_GET makes at most one upstream     *)
(* call and emits exactly one HTTP response (one status line and header    *)
(* block, one body), for every path and upstream outcome, also when a      *)
(* raise inside `try` comes after send_json has begun to write the success *)
(* response: send_json runs once, and what is on the connection is the     *)
(* response of that call, whole when the client is still connected and cut *)
(* short where the connection broke otherwise.                             *)
(***************************************************************************)
\* the two writes of the one send_json call
OneResponse == <<HeadOf(responses[1]), BodyOf(responses[1])>>

C13_OneCallOneResponse ==
    (handled /\ IsHttp) =>
        /\ calls <= 1
        /\ Len(responses) = 1
        /\ Len(wire) <= 2 /\ wire = SubSeq(OneResponse, 1, Len(wire))
        /\ Connected => wire = OneResponse

====
